---- MODULE Spec2Model ----
(***************************************************************************)
(* HttpClient::request (src/http_client.rs): one blocking HTTP/1.1         *)
(* exchange over raw TCP.  A text is a sequence of one-character strings,  *)
(* an Option is a sequence of length at most one (<<>> is None, <<x>> is   *)
(* Some(x)), and byte offsets are 0-based as in the source.                *)
(***************************************************************************)
EXTENDS Integers, Sequences, FiniteSets, TLC

VARIABLES method, url, json_body,   \* the arguments of request()
          pc,                       \* the next step of request()
          host, path, ip_address,   \* locals of request()
          request,                  \* the request text handed to write_all
          response,                 \* the String read_to_string fills
          trace,                    \* the blocking operations performed so far
          outcome, resp             \* the value request() returns

vars == <<method, url, json_body, pc, host, path, ip_address, request,
          response, trace, outcome, resp>>

----------------------------------------------------------------------------
(* Bounds of the model.                                                    *)

MaxLen == 5          \* longest response text, brace alphabet
MaxHdrLen == 7       \* longest response text, header alphabet
MaxStatusLen == 7    \* longest response text, status-line alphabet
MaxIps == 2          \* most addresses one lookup returns

U16Max == 65535

----------------------------------------------------------------------------
(* Arguments and environment.                                              *)

HttpMethod == {"Get", "Post", "Delete"}

Urls == {"not a url", "mailto:a@b.c", "http://example.test/x",
         "https://jsonplaceholder.typicode.com/posts/2"}

\* What Url::parse, host_str and path give for the URLs above.
UrlParse(u) ==
    CASE u = "http://example.test/x" ->
           [ok |-> TRUE, host |-> <<"example.test">>, path |-> "/x"]
      [] u = "https://jsonplaceholder.typicode.com/posts/2" ->
           [ok |-> TRUE, host |-> <<"jsonplaceholder.typicode.com">>,
            path |-> "/posts/2"]
      [] u = "mailto:a@b.c" ->
           [ok |-> TRUE, host |-> <<>>, path |-> "a@b.c"]
      [] OTHER ->
           [ok |-> FALSE, host |-> <<>>, path |-> ""]

\* The JSON values a caller passes; "cyclic" stands for a value the
\* serializer rejects.
JsonValues == {"object", "cyclic"}

\* serde_json::to_string: Ok(text) as <<text>>, Err as <<>>.
to_string(v) ==
    CASE v = "object" -> <<"{\"id\":101}">>
      [] OTHER -> <<>>

Addrs == {"192.0.2.1", "192.0.2.2"}

RECURSIVE SeqsUpTo(_, _)
SeqsUpTo(S, n) ==
    IF n = 0 THEN {<<>>}
    ELSE LET shorter == SeqsUpTo(S, n - 1)
         IN  shorter \cup {Append(s, x) : s \in shorter, x \in S}

\* lookup_host: Err as <<>>, Ok(ips) as <<ips>>; a successful getaddrinfo
\* returns at least one address.
LookupResults ==
    {<<>>} \cup {<<ips>> : ips \in SeqsUpTo(Addrs, MaxIps) \ {<<>>}}

\* The pieces a server's reply arrives in.
BraceChunks == {<<"{">>, <<"}">>, <<"a">>}
HeaderChunks == {<<"a">>, <<":", " ">>, <<":">>, <<"\n">>, <<"\r">>}
StatusChunks == {<<"x">>, <<" ">>, <<"\n">>, <<"2", "0">>, <<"1">>,
                 <<"9", "9", "9", "9">>}

----------------------------------------------------------------------------
(* Status line: lines 47-113 and 159-164.                                  *)

StatusPhrase ==
    (100 :> "Continue") @@ (101 :> "Switching Protocols") @@
    (102 :> "Processing") @@ (103 :> "Early Hints") @@
    (200 :> "OK") @@ (201 :> "Created") @@ (202 :> "Accepted") @@
    (203 :> "Non-Authoritative Information") @@ (204 :> "No Content") @@
    (205 :> "Reset Content") @@ (206 :> "Partial Content") @@
    (207 :> "Multi-Status") @@ (208 :> "Already Reported") @@
    (226 :> "IM Used") @@
    (300 :> "Multiple Choices") @@ (301 :> "Moved Permanently") @@
    (302 :> "Found") @@ (303 :> "See Other") @@ (304 :> "Not Modified") @@
    (305 :> "Use Proxy") @@ (307 :> "Temporary Redirect") @@
    (308 :> "Permanent Redirect") @@
    (400 :> "Bad Request") @@ (401 :> "Unauthorized") @@
    (402 :> "Payment Required") @@ (403 :> "Forbidden") @@
    (404 :> "Not Found") @@ (405 :> "Method Not Allowed") @@
    (406 :> "Not Acceptable") @@
    (407 :> "Proxy Authentication Required") @@
    (408 :> "Request Timeout") @@ (409 :> "Conflict") @@ (410 :> "Gone") @@
    (411 :> "Length Required") @@ (412 :> "Precondition Failed") @@
    (413 :> "Payload Too Large") @@ (414 :> "URI Too Long") @@
    (415 :> "Unsupported Media Type") @@
    (416 :> "Range Not Satisfiable") @@ (417 :> "Expectation Failed") @@
    (418 :> "I'm a teapot") @@ (421 :> "Misdirected Request") @@
    (422 :> "Unprocessable Content") @@ (423 :> "Locked") @@
    (424 :> "Failed Dependency") @@ (425 :> "Too Early") @@
    (426 :> "Upgrade Required") @@ (428 :> "Precondition Required") @@
    (429 :> "Too Many Requests") @@
    (431 :> "Request Header Fields Too Large") @@
    (451 :> "Unavailable For Legal Reasons") @@
    (500 :> "Internal Server Error") @@ (501 :> "Not Implemented") @@
    (502 :> "Bad Gateway") @@ (503 :> "Service Unavailable") @@
    (504 :> "Gateway Timeout") @@ (505 :> "HTTP Version Not Supported") @@
    (506 :> "Variant Also Negotiates") @@ (507 :> "Insufficient Storage") @@
    (508 :> "Loop Detected") @@ (510 :> "Not Extended") @@
    (511 :> "Network Authentication Required")

get_status_text(status_code) ==
    IF status_code \in DOMAIN StatusPhrase THEN StatusPhrase[status_code]
    ELSE "Unknown"

\* str::lines: split after every "\n", then drop that "\n" and a "\r"
\* right before it; a last line without "\n" is kept as it is.
RECURSIVE LinesFrom(_, _, _)
LinesFrom(s, i, cur) ==
    IF i > Len(s) THEN (IF cur = <<>> THEN <<>> ELSE <<cur>>)
    ELSE IF s[i] = "\n"
         THEN LET line == IF cur # <<>> /\ cur[Len(cur)] = "\r"
                          THEN SubSeq(cur, 1, Len(cur) - 1) ELSE cur
              IN  <<line>> \o LinesFrom(s, i + 1, <<>>)
         ELSE LinesFrom(s, i + 1, Append(cur, s[i]))

Lines(s) == LinesFrom(s, 1, <<>>)

IsWhitespace(c) == c \in {" ", "\t", "\n", "\r", "\f"}

\* str::split_whitespace: the maximal runs of non-whitespace, in order.
RECURSIVE TokensFrom(_, _, _)
TokensFrom(s, i, cur) ==
    IF i > Len(s) THEN (IF cur = <<>> THEN <<>> ELSE <<cur>>)
    ELSE IF IsWhitespace(s[i])
         THEN (IF cur = <<>> THEN <<>> ELSE <<cur>>) \o TokensFrom(s, i + 1, <<>>)
         ELSE TokensFrom(s, i + 1, Append(cur, s[i]))

split_whitespace(s) == TokensFrom(s, 1, <<>>)

Digit == ("0" :> 0) @@ ("1" :> 1) @@ ("2" :> 2) @@ ("3" :> 3) @@ ("4" :> 4) @@
         ("5" :> 5) @@ ("6" :> 6) @@ ("7" :> 7) @@ ("8" :> 8) @@ ("9" :> 9)

\* Mutant of ParseDigits: the arithmetic wraps at 16 bits instead of
\* being checked.
RECURSIVE ParseDigitsWrapping(_, _, _)
ParseDigitsWrapping(s, i, acc) ==
    IF i > Len(s) THEN <<acc>>
    ELSE IF s[i] \notin DOMAIN Digit THEN <<>>
    ELSE ParseDigitsWrapping(s, i + 1, (acc * 10 + Digit[s[i]]) % (U16Max + 1))

\* The digit loop of u16::from_str: checked multiply and add.
RECURSIVE ParseDigits(_, _, _)
ParseDigits(s, i, acc) ==
    IF i > Len(s) THEN <<acc>>
    ELSE IF s[i] \notin DOMAIN Digit THEN <<>>
    ELSE LET v == acc * 10 + Digit[s[i]]
         IN  IF v > U16Max THEN <<>> ELSE ParseDigits(s, i + 1, v)

\* code.parse::<u16>().ok(): one leading "+" is accepted, a sign alone or
\* an empty string is not.
parse_u16(code) ==
    IF code = <<>> THEN <<>>
    ELSE IF code[1] = "+"
         THEN (IF Len(code) = 1 THEN <<>> ELSE ParseDigits(code, 2, 0))
         ELSE ParseDigits(code, 1, 0)

\* nth(n) of an iterator, n counted from 0.
nth(seq, n) == IF Len(seq) > n THEN <<seq[n + 1]>> ELSE <<>>

status_code_of(text) ==
    LET first == nth(Lines(text), 0)
        status_line == IF first = <<>> THEN <<>> ELSE first[1]
        tok == nth(split_whitespace(status_line), 1)
        code == IF tok = <<>> THEN <<>> ELSE parse_u16(tok[1])
    IN  IF code = <<>> THEN 0 ELSE code[1]

----------------------------------------------------------------------------
(* Headers: lines 166-177.                                                 *)

\* The 1-based position of the first ": " at or after i, 0 when none.
RECURSIVE FindSep(_, _)
FindSep(line, i) ==
    IF i + 1 > Len(line) THEN 0
    ELSE IF line[i] = ":" /\ line[i + 1] = " " THEN i
    ELSE FindSep(line, i + 1)

\* line.splitn(2, ": ") and the if on parts.len().
split_header(line) ==
    LET p == FindSep(line, 1)
    IN  IF p > 0
        THEN <<SubSeq(line, 1, p - 1), SubSeq(line, p + 2, Len(line))>>
        ELSE <<line, <<>>>>

\* skip(1).take_while(|line| !line.is_empty()) over the lines.
RECURSIVE TakeNonEmpty(_, _)
TakeNonEmpty(ls, i) ==
    IF i > Len(ls) \/ ls[i] = <<>> THEN <<>>
    ELSE <<ls[i]>> \o TakeNonEmpty(ls, i + 1)

header_lines(text) == TakeNonEmpty(Lines(text), 2)

\* Mutant of insert: a key already present keeps its first value.
insert_keep_first(map, pair) ==
    [k \in DOMAIN map \cup {pair[1]} |->
        IF k \in DOMAIN map THEN map[k] ELSE pair[2]]

\* HashMap::insert: a later pair with the same key replaces the value.
insert(map, pair) ==
    [k \in DOMAIN map \cup {pair[1]} |->
        IF k = pair[1] THEN pair[2] ELSE map[k]]

\* collect() into a HashMap: the pairs are inserted in iteration order.
RECURSIVE collect(_, _)
collect(pairs, n) ==
    IF n = 0 THEN [k \in {} |-> <<>>]
    ELSE insert(collect(pairs, n - 1), pairs[n])

headers_of(text) ==
    LET ls == header_lines(text)
        pairs == [i \in 1..Len(ls) |-> split_header(ls[i])]
    IN  collect(pairs, Len(pairs))

----------------------------------------------------------------------------
(* Body slice: lines 179-181.                                              *)

\* str::find(ch): the 0-based offset of the first ch, None when absent.
RECURSIVE FindFrom(_, _, _)
FindFrom(text, ch, i) ==
    IF i > Len(text) THEN <<>>
    ELSE IF text[i] = ch THEN <<i - 1>>
    ELSE FindFrom(text, ch, i + 1)

find(text, ch) == FindFrom(text, ch, 1)

\* str::rfind(ch): the 0-based offset of the last ch, None when absent.
RECURSIVE RFindFrom(_, _, _)
RFindFrom(text, ch, i) ==
    IF i < 1 THEN <<>>
    ELSE IF text[i] = ch THEN <<i - 1>>
    ELSE RFindFrom(text, ch, i - 1)

rfind(text, ch) == RFindFrom(text, ch, Len(text))

json_start_of(text) ==
    LET f == find(text, "{") IN IF f = <<>> THEN 0 ELSE f[1]

\* Mutant of json_end_of: the "+ 1" that includes the last "}" is missing.
json_end_exclusive(text) ==
    LET r == rfind(text, "}") IN IF r = <<>> THEN Len(text) ELSE r[1]

json_end_of(text) ==
    LET r == rfind(text, "}") IN IF r = <<>> THEN Len(text) ELSE r[1] + 1

\* response[json_start..json_end]: the index panics when the range is
\* reversed or runs past the end; Some(slice) otherwise.
slice(text, from, to) ==
    IF from > to \/ to > Len(text) THEN <<>>
    ELSE <<SubSeq(text, from + 1, to)>>

\* Lines 159-185: None when the slice panics, else the HttpResponse
\* (without its wall-clock duration).
parse_response(text) ==
    LET status_code == status_code_of(text)
        body == slice(text, json_start_of(text), json_end_of(text))
    IN  IF body = <<>> THEN <<>>
        ELSE <<[status_code |-> status_code,
                status_text |-> get_status_text(status_code),
                json_body   |-> body[1],
                headers     |-> headers_of(text)]>>

----------------------------------------------------------------------------
(* Request text: lines 133-152.                                            *)

method_str(m) ==
    CASE m = "Get" -> "GET"
      [] m = "Post" -> "POST"
      [] m = "Delete" -> "DELETE"

\* The request as the sequence of the pieces format! joins.
request_head(m, p, h) ==
    <<method_str(m), " ", p, " HTTP/1.1\r\n",
      "Host: ", h, "\r\n",
      "User-Agent: Rust-HTTP-Client\r\n",
      "Connection: close\r\n",
      "\r\n">>

server_address(ip) == <<ip, ":80">>

----------------------------------------------------------------------------
(* What a call has done so far, read off the trace.                        *)

Performed(op) == \E i \in DOMAIN trace : trace[i].op = op
Succeeded(op) == \E i \in DOMAIN trace : trace[i].op = op /\ trace[i].ok
Failed(op)    == \E i \in DOMAIN trace : trace[i].op = op /\ ~trace[i].ok
Count(op)     == Cardinality({i \in DOMAIN trace : trace[i].op = op})

NetworkOps == {"probe", "lookup", "connect", "write", "read"}

UrlHasHost(u) == UrlParse(u).ok /\ UrlParse(u).host # <<>>

Min(S) == CHOOSE x \in S : \A y \in S : x <= y
Max(S) == CHOOSE x \in S : \A y \in S : y <= x

----------------------------------------------------------------------------
(* request(): lines 115-186.                                               *)

\* One entry of the trace: the operation, whether it succeeded and, for a
\* connection, the address it was made to.
Conn(op, to, ok) == [op |-> op, ok |-> ok, to |-> to]
Step(op, ok) == Conn(op, <<>>, ok)

Return(kind, value) ==
    /\ pc' = "done"
    /\ outcome' = kind
    /\ resp' = value

Continue(next) ==
    /\ pc' = next
    /\ UNCHANGED <<outcome, resp>>

InitWith(methods, urls, bodies) ==
    /\ method \in methods
    /\ url \in urls
    /\ json_body \in bodies
    /\ pc = "parse"
    /\ host = ""
    /\ path = ""
    /\ ip_address = ""
    /\ request = <<>>
    /\ response = <<>>
    /\ trace = <<>>
    /\ outcome = "pending"
    /\ resp = <<>>

Init == InitWith(HttpMethod, Urls, {<<>>} \cup {<<v>> : v \in JsonValues})

\* The calls of main.rs's GET, plus the argument values that end a call
\* early.
InitGet ==
    InitWith({"Get"}, Urls \ {"http://example.test/x"}, {<<>>, <<"cyclic">>})

\* Mutant of ParseUrl: a url without a host is let through with an empty
\* host.
ParseUrl_NoHostCheck ==
    /\ pc = "parse"
    /\ LET parsed == UrlParse(url)
       IN  IF parsed.ok
           THEN /\ host' = IF parsed.host = <<>> THEN "" ELSE parsed.host[1]
                /\ path' = parsed.path
                /\ trace' = Append(trace, Step("parse", TRUE))
                /\ Continue("probe")
           ELSE /\ trace' = Append(trace, Step("parse", FALSE))
                /\ Return("InvalidUrl", <<>>)
                /\ UNCHANGED <<host, path>>
    /\ UNCHANGED <<method, url, json_body, ip_address, request, response>>

\* Lines 118-120: Url::parse and host_str, each followed by `?`.
ParseUrl ==
    /\ pc = "parse"
    /\ LET parsed == UrlParse(url)
       IN  IF parsed.ok /\ parsed.host # <<>>
           THEN /\ host' = parsed.host[1]
                /\ path' = parsed.path
                /\ trace' = Append(trace, Step("parse", TRUE))
                /\ Continue("probe")
           ELSE /\ trace' = Append(trace, Step("parse", FALSE))
                /\ Return("InvalidUrl", <<>>)
                /\ UNCHANGED <<host, path>>
    /\ UNCHANGED <<method, url, json_body, ip_address, request, response>>

\* Mutant of Probe: the host is looked up after a successful probe too.
Probe_AlwaysLooksUp ==
    /\ pc = "probe"
    /\ \E ok \in BOOLEAN :
         /\ trace' = Append(trace, Conn("probe", <<host, "80">>, ok))
         /\ ip_address' = IF ok THEN host ELSE ip_address
         /\ Continue("lookup")
    /\ UNCHANGED <<method, url, json_body, host, path, request, response>>

\* Lines 122-123: the probe connection to (host, 80).
Probe ==
    /\ pc = "probe"
    /\ \E ok \in BOOLEAN :
         /\ trace' = Append(trace, Conn("probe", <<host, "80">>, ok))
         /\ IF ok
            THEN /\ ip_address' = host
                 /\ Continue("connect")
            ELSE /\ Continue("lookup")
                 /\ UNCHANGED ip_address
    /\ UNCHANGED <<method, url, json_body, host, path, request, response>>

\* Mutant of Lookup: a failed lookup is reported as a ConnectionError.
Lookup_FailureIsError ==
    /\ pc = "lookup"
    /\ \E r \in LookupResults :
         /\ trace' = Append(trace, Step("lookup", r # <<>>))
         /\ IF r # <<>>
            THEN /\ ip_address' = r[1][1]
                 /\ Continue("connect")
            ELSE /\ Return("ConnectionError", <<>>)
                 /\ UNCHANGED ip_address
    /\ UNCHANGED <<method, url, json_body, host, path, request, response>>

\* Lines 124-127: lookup_host after a failed probe.
Lookup ==
    /\ pc = "lookup"
    /\ \E r \in LookupResults :
         /\ trace' = Append(trace, Step("lookup", r # <<>>))
         /\ IF r # <<>>
            THEN /\ ip_address' = r[1][1]
                 /\ Continue("connect")
            ELSE /\ Return("OkNone", <<>>)
                 /\ UNCHANGED ip_address
    /\ UNCHANGED <<method, url, json_body, host, path, request, response>>

\* Mutant of Connect: a failed connect is tried a second time.
Connect_RetriesOnce ==
    /\ pc = "connect"
    /\ \E ok \in BOOLEAN :
         /\ trace' = Append(trace, Conn("connect", server_address(ip_address), ok))
         /\ IF ok
            THEN Continue("build")
            ELSE IF ~Performed("connect")
                 THEN Continue("connect")
                 ELSE Return("ConnectionError", <<>>)
    /\ UNCHANGED <<method, url, json_body, host, path, ip_address, request,
                   response>>

\* Mutant of Connect: the body is serialized before the socket is opened.
Connect_SerializesFirst ==
    /\ pc = "connect"
    /\ IF json_body # <<>> /\ to_string(json_body[1]) = <<>>
       THEN /\ trace' = Append(trace, Step("serialize", FALSE))
            /\ Return("SerializationError", <<>>)
       ELSE \E ok \in BOOLEAN :
              /\ trace' = Append(trace, Conn("connect", server_address(ip_address), ok))
              /\ IF ok
                 THEN Continue("build")
                 ELSE Return("ConnectionError", <<>>)
    /\ UNCHANGED <<method, url, json_body, host, path, ip_address, request,
                   response>>

\* Lines 130-131: the real connection to "<ip_address>:80".
Connect ==
    /\ pc = "connect"
    /\ \E ok \in BOOLEAN :
         /\ trace' = Append(trace, Conn("connect", server_address(ip_address), ok))
         /\ IF ok
            THEN Continue("build")
            ELSE Return("ConnectionError", <<>>)
    /\ UNCHANGED <<method, url, json_body, host, path, ip_address, request,
                   response>>

\* Lines 133-152: the request text, with the serialized body when given.
BuildRequest ==
    /\ pc = "build"
    /\ LET head == request_head(method, path, host)
       IN  IF json_body = <<>>
           THEN /\ request' = head
                /\ trace' = trace
                /\ Continue("write")
           ELSE LET serialized_body == to_string(json_body[1])
                IN  /\ trace' = Append(trace,
                                       Step("serialize", serialized_body # <<>>))
                    /\ IF serialized_body # <<>>
                       THEN /\ request' = head \o <<serialized_body[1], "\r\n">>
                            /\ Continue("write")
                       ELSE /\ Return("SerializationError", <<>>)
                            /\ UNCHANGED request
    /\ UNCHANGED <<method, url, json_body, host, path, ip_address, response>>

\* Line 154: write_all.
Write ==
    /\ pc = "write"
    /\ \E ok \in BOOLEAN :
         /\ trace' = Append(trace, Step("write", ok))
         /\ IF ok
            THEN Continue("read")
            ELSE Return("ConnectionError", <<>>)
    /\ UNCHANGED <<method, url, json_body, host, path, ip_address, request,
                   response>>

\* Line 157: read_to_string takes the next piece of the reply.
ReadChunk(chunks, max) ==
    /\ pc = "read"
    /\ \E c \in chunks :
         /\ Len(response) + Len(c) <= max
         /\ response' = response \o c
    /\ UNCHANGED <<method, url, json_body, pc, host, path, ip_address,
                   request, trace, outcome, resp>>

\* Mutant of ReadFail: what was read before the failure is parsed and
\* returned.
ReadFail_ReturnsPartial ==
    /\ pc = "read"
    /\ trace' = Append(trace, Step("read", FALSE))
    /\ LET parsed == parse_response(response)
       IN  IF parsed = <<>>
           THEN Return("ConnectionError", <<>>)
           ELSE Return("OkSome", parsed)
    /\ UNCHANGED <<method, url, json_body, host, path, ip_address, request,
                   response>>

\* Line 157: read_to_string fails (I/O error or invalid UTF-8).
ReadFail ==
    /\ pc = "read"
    /\ trace' = Append(trace, Step("read", FALSE))
    /\ Return("ConnectionError", <<>>)
    /\ UNCHANGED <<method, url, json_body, host, path, ip_address, request,
                   response>>

\* Lines 157-185: end of stream, then the response is parsed and returned;
\* a panic of the slice aborts the call.
ReadEof ==
    /\ pc = "read"
    /\ trace' = Append(trace, Step("read", TRUE))
    /\ LET parsed == parse_response(response)
       IN  IF parsed = <<>>
           THEN Return("panic", <<>>)
           ELSE Return("OkSome", parsed)
    /\ UNCHANGED <<method, url, json_body, host, path, ip_address, request,
                   response>>

Exchange(chunks, max) ==
    \/ ParseUrl
    \/ Probe
    \/ Lookup
    \/ Connect
    \/ BuildRequest
    \/ Write
    \/ ReadChunk(chunks, max)
    \/ ReadFail
    \/ ReadEof

Next == Exchange(BraceChunks, MaxLen)

Spec == Init /\ [][Next]_vars

\* The same call against a server whose reply is made of header pieces.
NextHeaders == Exchange(HeaderChunks, MaxHdrLen)

SpecHeaders == InitGet /\ [][NextHeaders]_vars

\* The same call against a server whose reply is made of status-line pieces.
NextStatus == Exchange(StatusChunks, MaxStatusLen)

SpecStatus == InitGet /\ [][NextStatus]_vars

----------------------------------------------------------------------------
(* Claims.                                                                 *)

\* C1: when the probe connection fails and the DNS lookup fails too, the
\* call has returned Ok(None), no error, and has neither attempted the real
\* connection nor built, written or read anything.
C1_LookupFailureReturnsOkNone ==
    (Failed("probe") /\ Failed("lookup")) =>
        /\ pc = "done"
        /\ outcome = "OkNone"
        /\ resp = <<>>
        /\ ~Performed("connect") /\ ~Performed("write") /\ ~Performed("read")
        /\ request = <<>>
        /\ response = <<>>

C1_Witness ==
    /\ url = "http://example.test/x"
    /\ Len(trace) = 3
    /\ trace[2] = Conn("probe", <<"example.test", "80">>, FALSE)
    /\ trace[3] = Step("lookup", FALSE)
    /\ outcome = "OkNone"

\* C2: a finished call has returned InvalidUrl exactly when the url does
\* not parse or parses without a host, and a call on such a url performs no
\* network operation at all.
C2_InvalidUrlExactlyForBadUrl ==
    /\ pc = "done" => (outcome = "InvalidUrl" <=> ~UrlHasHost(url))
    /\ outcome = "InvalidUrl" => pc = "done"
    /\ ~UrlHasHost(url) =>
          /\ \A i \in DOMAIN trace : trace[i].op \notin NetworkOps
          /\ request = <<>>
          /\ response = <<>>
          /\ resp = <<>>

C2_Witness ==
    /\ url = "mailto:a@b.c"
    /\ outcome = "InvalidUrl"
    /\ trace = <<Step("parse", FALSE)>>

\* C3: the json_body of a returned Response is the part of the text read
\* from its first "{" (from the start when there is none) to its last "}"
\* inclusive (to the end when there is none).
BracePositions(text, ch) == {i \in 1..Len(text) : text[i] = ch}

C3_Expected(text) ==
    LET opens  == BracePositions(text, "{")
        closes == BracePositions(text, "}")
        lo == IF opens = {} THEN 1 ELSE Min(opens)
        hi == IF closes = {} THEN Len(text) ELSE Max(closes)
    IN  [i \in 1..(hi - lo + 1) |-> text[lo + i - 1]]

C3_BodyIsFirstToLastBrace ==
    resp # <<>> => resp[1].json_body = C3_Expected(response)

C3_Witness ==
    /\ resp # <<>>
    /\ response = <<"a", "{", "a", "}", "a">>
    /\ resp[1].json_body = <<"{", "a", "}">>

\* C4, as claimed: the headers of a returned Response hold one entry per
\* header line, so as many entries as the header section has lines.
C4_Section(text) ==
    LET ls == Lines(text)
        empties == {i \in 2..Len(ls) : ls[i] = <<>>}
        last == IF empties = {} THEN Len(ls) ELSE Min(empties) - 1
    IN  [i \in 1..(last - 1) |-> ls[i + 1]]

C4_Seps(line) ==
    {i \in 1..(Len(line) - 1) : line[i] = ":" /\ line[i + 1] = " "}

C4_Name(line) ==
    IF C4_Seps(line) = {} THEN line
    ELSE [i \in 1..(Min(C4_Seps(line)) - 1) |-> line[i]]

C4_Value(line) ==
    IF C4_Seps(line) = {} THEN <<>>
    ELSE LET p == Min(C4_Seps(line))
         IN  [i \in 1..(Len(line) - p - 1) |-> line[p + 1 + i]]

C4_OneEntryPerLine ==
    resp # <<>> =>
        LET sec == C4_Section(response)
        IN  /\ Cardinality(DOMAIN resp[1].headers) = Len(sec)
            /\ \A i \in DOMAIN sec :
                  /\ C4_Name(sec[i]) \in DOMAIN resp[1].headers
                  /\ resp[1].headers[C4_Name(sec[i])] = C4_Value(sec[i])

\* C4, amended: the headers hold one entry per distinct name of the header
\* section, split at the first ": " (whole line and empty value without
\* it); of several lines with one name the last line's value is kept.
C4_OneEntryPerName ==
    resp # <<>> =>
        LET sec == C4_Section(response)
            h == resp[1].headers
        IN  /\ DOMAIN h = {C4_Name(sec[i]) : i \in DOMAIN sec}
            /\ \A i \in DOMAIN sec :
                  (\A j \in DOMAIN sec : j > i => C4_Name(sec[j]) # C4_Name(sec[i]))
                      => h[C4_Name(sec[i])] = C4_Value(sec[i])
            /\ (\A i, j \in DOMAIN sec : i # j => C4_Name(sec[i]) # C4_Name(sec[j]))
                  => Cardinality(DOMAIN h) = Len(sec)

C4_Witness ==
    /\ resp # <<>>
    /\ response = <<"\n", "a", ":", " ", "a", "\n", "a">>
    /\ resp[1].headers = (<<"a">> :> <<>>)

\* C5: the status_code of a returned Response is the number written by
\* the second whitespace-separated token of the first line, 0 when there is
\* no such token or it is no u16, and status_text is the table's phrase for
\* that code, "Unknown" outside the table, whatever phrase the server sent.
C5_FirstLine(text) ==
    LET nls == {i \in 1..Len(text) : text[i] = "\n"}
        n == IF nls = {} THEN Len(text) ELSE Min(nls) - 1
        m == IF nls # {} /\ n >= 1 /\ text[n] = "\r" THEN n - 1 ELSE n
    IN  [i \in 1..m |-> text[i]]

C5_TokenStarts(line) ==
    {i \in 1..Len(line) :
        ~IsWhitespace(line[i]) /\ (i = 1 \/ IsWhitespace(line[i - 1]))}

C5_SecondToken(line) ==
    LET starts == C5_TokenStarts(line)
    IN  IF Cardinality(starts) < 2 THEN <<>>
        ELSE LET s == Min(starts \ {Min(starts)})
                 e == Max({j \in s..Len(line) :
                             \A k \in s..j : ~IsWhitespace(line[k])})
             IN  <<[i \in 1..(e - s + 1) |-> line[s + i - 1]]>>

RECURSIVE C5_Decimal(_)
C5_Decimal(ds) ==
    IF ds = <<>> THEN 0
    ELSE C5_Decimal(SubSeq(ds, 1, Len(ds) - 1)) * 10 + Digit[ds[Len(ds)]]

C5_Number(tok) ==
    LET ds == IF tok[1] = "+" THEN Tail(tok) ELSE tok
    IN  IF /\ ds # <<>>
           /\ \A i \in DOMAIN ds : ds[i] \in DOMAIN Digit
           /\ C5_Decimal(ds) < 2^16
        THEN C5_Decimal(ds) ELSE 0

C5_Expected(text) ==
    LET tok == C5_SecondToken(C5_FirstLine(text))
    IN  IF tok = <<>> THEN 0 ELSE C5_Number(tok[1])

C5_StatusFromSecondToken ==
    resp # <<>> =>
        /\ resp[1].status_code = C5_Expected(response)
        /\ resp[1].status_text = get_status_text(resp[1].status_code)
        /\ (resp[1].status_code \notin DOMAIN StatusPhrase
               <=> resp[1].status_text = "Unknown")

C5_Witness ==
    /\ resp # <<>>
    /\ response = <<"x", " ", "2", "0", "1", " ", "x">>
    /\ resp[1].status_code = 201
    /\ resp[1].status_text = "Created"

\* C6: a Response is returned only by a call whose read reached end of
\* stream, and it is the parse of everything read; a call whose connect,
\* write or read failed has returned ConnectionError and no Response,
\* whatever had been read before the failure.
C6_ResponseOnlyAfterFullRead ==
    /\ resp # <<>> =>
          /\ outcome = "OkSome"
          /\ pc = "done"
          /\ trace[Len(trace)] = Step("read", TRUE)
          /\ resp = parse_response(response)
    /\ outcome = "OkSome" => resp # <<>>
    /\ (Failed("connect") \/ Failed("write") \/ Failed("read")) =>
          /\ pc = "done"
          /\ outcome = "ConnectionError"
          /\ resp = <<>>

C6_Witness ==
    /\ Failed("read")
    /\ response = <<"{", "a", "}">>
    /\ outcome = "ConnectionError"
    /\ resp = <<>>

\* C7, as claimed: a finished call has returned Ok(None) exactly when the
\* probe connection succeeded and the DNS lookup then failed.
C7_OkNoneWhenProbeSucceeded ==
    pc = "done" =>
        (outcome = "OkNone" <=> (Succeeded("probe") /\ Failed("lookup")))

\* C7, amended: a finished call has returned Ok(None) exactly when the
\* probe connection failed and the DNS lookup then failed too.
C7_OkNoneWhenProbeFailed ==
    /\ pc = "done" =>
          (outcome = "OkNone" <=> (Failed("probe") /\ Failed("lookup")))
    /\ Succeeded("probe") => ~Performed("lookup")

C7_Witness ==
    /\ pc = "done"
    /\ outcome = "OkNone"
    /\ Failed("probe")
    /\ Failed("lookup")
    /\ url = "https://jsonplaceholder.typicode.com/posts/2"

Rank(op) ==
    CASE op = "parse" -> 1
      [] op = "probe" -> 2
      [] op = "lookup" -> 3
      [] op = "connect" -> 4
      [] op = "serialize" -> 5
      [] op = "write" -> 6
      [] op = "read" -> 7

C9_FirstFailureDecides ==
    /\ \A i, j \in DOMAIN trace : i < j => Rank(trace[i].op) < Rank(trace[j].op)
    /\ \A i \in DOMAIN trace :
          (~trace[i].ok /\ trace[i].op # "probe") => i = Len(trace) /\ pc = "done"
    /\ Failed("parse") <=> outcome = "InvalidUrl"
    /\ Failed("serialize") <=> outcome = "SerializationError"
    /\ (Failed("connect") \/ Failed("write") \/ Failed("read"))
          <=> outcome = "ConnectionError"
    /\ Performed("serialize") => Succeeded("connect")
    /\ outcome = "SerializationError" =>
          /\ ~Performed("write") /\ ~Performed("read")
          /\ request = <<>>
          /\ response = <<>>
    /\ (Failed("connect") /\ json_body # <<>> /\ to_string(json_body[1]) = <<>>)
          => outcome = "ConnectionError"

C9_Witness ==
    /\ outcome = "SerializationError"
    /\ json_body = <<"cyclic">>
    /\ trace[Len(trace)] = Step("serialize", FALSE)
    /\ Succeeded("connect")

\* C10, as claimed: a finished call has one of the five outcomes, so it
\* never aborts, whatever text was read.
C10_NeverAborts ==
    pc = "done" =>
        outcome \in {"OkSome", "OkNone", "InvalidUrl", "ConnectionError",
                     "SerializationError"}

====
